---- MODULE Spec2Model ----
(***************************************************************************)
(* Chain-binomial epidemic simulator and Metropolis-within-Gibbs sampler   *)
(* of covid19uk: src/covid/impl/discrete_markov.py, src/covid/impl/mcmc.py *)
(* and the sampling loop of src/mcmc.py.                                   *)
(*                                                                         *)
(* A float is [n |-> numerator, d |-> denominator]: a finite one is a     *)
(* whole number of 1/Unit, each product and quotient rounded to nearest.   *)
(* A denominator of 0 is a non-finite float: 0/0 is NaN, n/0 (n > 0) is    *)
(* +infinity.  exp() is tabulated to three decimals and underflows to 0.   *)
(***************************************************************************)
EXTENDS Integers, Sequences, FiniteSets, TLC

VARIABLES
    rates,        \* approx_expm: the rate matrix passed in
    expm_out,     \* approx_expm: the matrix returned (<<>> before the call)
    h,            \* the hazard function: [base, kind]
    time_step,    \* the time step
    state,        \* occupancy vector: propagate_fn's argument, the loop's carry
    markov_transition, \* propagate_fn: the matrix approx_expm returned
    prop_out,     \* propagate_fn: [counts, new_state] returned
    init_state,   \* discrete_markov_simulation: the state passed in
    num_times,    \* discrete_markov_simulation: times.shape[0]
    sim_i,        \* discrete_markov_simulation: the loop counter i
    output,       \* discrete_markov_simulation: the TensorArray written so far
    current_state, \* UncalibratedEventTimesUpdate.one_step: the event tensor
    device,       \* where the scatter kernels of one_step run
    draws,        \* one_step: the random draws [t_star, u, k]
    event_step,   \* one_step: what the call came to
    n_samples,    \* sample(): the number of outer sweeps asked for
    num_event_updates, \* sample(): inner repetitions per outer sweep
    joint_state,  \* sample(): state = [parameters, events, occults]
    results,      \* sample(): the five kernels' results
    sweep,        \* sample(): the outer loop counter i
    inner,        \* sample(): the inner loop counter j
    pc,           \* sample(): the kernel that steps next
    kernel_call,  \* sample(): the last kernel call, what it was handed
    sweep_accepts, \* sample(): no kernel has rejected in this outer sweep
    steps,        \* sample(): the kernels stepped so far in this outer sweep
    sample_accum, \* sample(): per state part, the indices written
    results_accum, \* sample(): per kernel, the indices written
    gibbs_state,  \* MH_within_Gibbs: the list of state parts
    step_results, \* MH_within_Gibbs: the list of the kernels' results
    gibbs_i,      \* MH_within_Gibbs.one_step: the loop index i
    gibbs_sweep,  \* MH_within_Gibbs: the calls of one_step completed
    gibbs_call,   \* MH_within_Gibbs.one_step: the last kernel call
    walk_state,   \* UncalibratedLogRandomWalk.one_step: current_state
    walk_noise,   \* UncalibratedLogRandomWalk.one_step: new_state_fn's draw
    walk_out,     \* UncalibratedLogRandomWalk.one_step: what it returned
    events,       \* discrete_markov_log_prob: the event tensor [T, X]
    stoichiometry, \* discrete_markov_log_prob: the [X, S] state updates
    state_timeseries, \* discrete_markov_log_prob: the occupancy at each time
    prob_accum,   \* discrete_markov_log_prob: the matrix of each time
    event_matrix, \* discrete_markov_log_prob: the full count matrices
    log_prob      \* discrete_markov_log_prob: the value returned

expmVars == <<rates, expm_out>>
propVars == <<h, time_step, state, markov_transition, prop_out>>
simVars == <<init_state, num_times, sim_i, output>>
eventVars == <<current_state, device, draws, event_step>>
sampleVars == <<n_samples, num_event_updates, joint_state, results, sweep,
                inner, pc, kernel_call, sweep_accepts, steps, sample_accum,
                results_accum>>
gibbsVars == <<gibbs_state, step_results, gibbs_i, gibbs_sweep, gibbs_call>>
walkVars == <<walk_state, walk_noise, walk_out>>
logProbVars == <<events, stoichiometry, state_timeseries, prob_accum,
                 event_matrix,
                 log_prob>>
vars == <<expmVars, propVars, simVars, eventVars, sampleVars, gibbsVars,
         walkVars, logProbVars>>

----------------------------------------------------------------------------
(* Bounds *)

NumStates == 4
MaxRate == 3
MaxActiveRows == 1
MaxHazard == 1
LongStep == 8
MaxPop == 2
NumSteps == 2
NumTimes == 2
NumMeta == 1
MaxEvents == 4
UDenom == 2
NumValues == 2
MaxSweeps == 2
MaxEventUpdates == 2
NumKernels == 3
NumComponents == 2
MaxCurrent == 4
MaxNoise == 1
MaxScored == 1

\* the transition types S->E, E->I, I->R
NumEventTypes == 3

States == 1..NumStates

----------------------------------------------------------------------------
(* Float arithmetic *)

\* one unit in the last place: a finite float is a whole number of 1/Unit
Unit == 1000

Rat(n, d) == [n |-> n, d |-> d]
Float(n) == Rat(n, Unit)
Zero == Float(0)
One == Float(Unit)
NaN == Rat(0, 0)
Inf == Rat(1, 0)
NegInf == Rat(0 - 1, 0)

\* the float of an integer
OfInt(k) == Float(k * Unit)

IsNaN(x) == x.d = 0 /\ x.n = 0
IsFinite(x) == x.d > 0
IsZero(x) == x.d > 0 /\ x.n = 0

\* num / den rounded to the nearest integer, for den > 0
RoundDiv(num, den) == (2 * num + den) \div (2 * den)

\* x + y; NaN and infinity propagate, inf - inf is NaN
Add(x, y) ==
    IF IsNaN(x) \/ IsNaN(y) THEN NaN
    ELSE IF x.d = 0 /\ y.d = 0 THEN (IF x.n = y.n THEN x ELSE NaN)
    ELSE IF x.d = 0 THEN x
    ELSE IF y.d = 0 THEN y
    ELSE Float(x.n + y.n)

Neg(x) == Rat(0 - x.n, x.d)
Sub(x, y) == Add(x, Neg(y))

Sign(k) == IF k > 0 THEN 1 ELSE IF k < 0 THEN 0 - 1 ELSE 0

\* x * y rounded to the nearest float; 0 * inf is NaN
Mul(x, y) ==
    IF IsNaN(x) \/ IsNaN(y) THEN NaN
    ELSE IF x.d = 0 \/ y.d = 0 THEN Rat(Sign(x.n) * Sign(y.n), 0)
    ELSE Float(RoundDiv(x.n * y.n, Unit))

\* x / y rounded to the nearest float: 0/0 is NaN, n/0 is infinite
Div(x, y) ==
    IF IsNaN(x) \/ IsNaN(y) THEN NaN
    ELSE IF x.d = 0 /\ y.d = 0 THEN NaN
    ELSE IF y.d = 0 THEN Zero
    ELSE IF x.d = 0 THEN Rat(Sign(x.n) * (IF y.n < 0 THEN 0 - 1 ELSE 1), 0)
    ELSE IF y.n = 0 THEN Rat(Sign(x.n), 0)
    ELSE IF y.n > 0 THEN Float(RoundDiv(x.n * Unit, y.n))
    ELSE Float(RoundDiv((0 - x.n) * Unit, 0 - y.n))

\* x <= y for values that are not NaN
Leq(x, y) ==
    IF x.d = 0 /\ y.d = 0 THEN x.n <= y.n
    ELSE IF x.d = 0 THEN x.n < 0
    ELSE IF y.d = 0 THEN y.n > 0
    ELSE x.n <= y.n

InUnit(x) == IsFinite(x) /\ 0 <= x.n /\ x.n <= Unit

\* a vector over the compartments, and a matrix, as tuples
Vec(f) == SubSeq(f, 1, NumStates)
Mat(f) == Vec([i \in States |-> Vec(f[i])])

RECURSIVE SumTo(_, _)
\* f[1] + ... + f[k]
SumTo(f, k) == IF k = 0 THEN Zero ELSE Add(SumTo(f, k - 1), f[k])

\* tf.reduce_sum over the last axis of one row
ReduceSum(row) == SumTo(row, NumStates)

\* tf.math.exp(-x) for a whole x >= 0, rounded to the nearest float; it
\* underflows to 0
ExpNeg(x) ==
    LET k == x.n \div Unit
    IN  CASE k = 0 -> One
          [] k = 1 -> Float(368)
          [] k = 2 -> Float(135)
          [] k = 3 -> Float(50)
          [] k = 4 -> Float(18)
          [] k = 5 -> Float(7)
          [] k = 6 -> Float(2)
          [] k = 7 -> Float(1)
          [] OTHER -> Zero

\* the plain product x * y, which lets a NaN in x through
MultiplyNoNanPlain(x, y) == Mul(x, y)

\* tf.math.multiply_no_nan(x, y): 0 wherever y is 0, even if x is NaN
MultiplyNoNan(x, y) == IF IsZero(y) THEN Zero ELSE Mul(x, y)

----------------------------------------------------------------------------
(* approx_expm *)

RECURSIVE IntSumTo(_, _)
IntSumTo(f, k) == IF k = 0 THEN 0 ELSE IntSumTo(f, k - 1) + f[k]

\* the diagonal written by tf.linalg.set_diag
SetDiag(mt1, total_rates) ==
    Vec([i \in States |-> Sub(One, ReduceSum(mt1[i]))])

\* r: a matrix of whole rates, already multiplied by the time step
approx_expm(r) ==
    LET total_rates ==
            Vec([i \in States |-> OfInt(IntSumTo(r[i], NumStates))])
        prob == Vec([i \in States |-> Sub(One, ExpNeg(total_rates[i]))])
        mt1 == Mat([i \in States |-> [j \in States |->
                  MultiplyNoNan(Div(OfInt(r[i][j]), total_rates[i]),
                                prob[i])]])
        diag == SetDiag(mt1, total_rates)
    IN  Mat([i \in States |-> [j \in States |->
            IF i = j THEN diag[i] ELSE mt1[i][j]]])

\* rows of whole rates up to MaxRate with a zero at position i
RateRows(i) == {row \in [States -> 0..MaxRate] : row[i] = 0}

ZeroRow == [j \in States |-> 0]

RECURSIVE RateRowsUpTo(_, _)
\* the first k rows of a rate matrix of which at most budget rows have a
\* positive rate
RateRowsUpTo(k, budget) ==
    IF k = 0 THEN {<<>>}
    ELSE {Append(m, ZeroRow) : m \in RateRowsUpTo(k - 1, budget)}
         \cup (IF budget = 0 THEN {}
               ELSE {Append(m, row) : m \in RateRowsUpTo(k - 1, budget - 1),
                                      row \in RateRows(k) \ {ZeroRow}})

\* rate matrices with non-negative entries and a zero diagonal, of which at
\* most MaxActiveRows rows have a positive rate
RateMatrices(k) == RateRowsUpTo(NumStates, k)

----------------------------------------------------------------------------
(* Hazard functions *)

\* the cells of the rate matrix a hazard function of the family may fill:
\* the chain 1 -> 2 -> 3 -> 4, a cell that skips a compartment, a cell back
HazardCells == {<<1, 2>>, <<2, 3>>, <<3, 4>>, <<1, 3>>, <<4, 1>>}

HazardBases ==
    {[i \in States |-> [j \in States |->
        IF <<i, j>> \in HazardCells THEN c[<<i, j>>] ELSE 0]] :
        c \in [HazardCells -> 0..MaxHazard]}

HazardKinds == {"constant", "contact"}

Hazards == [base : HazardBases, kind : HazardKinds]

TimeSteps == {1, LongStep}

\* h(t, state): the constant kind returns its base; the contact kind scales
\* the rate into compartment j by the occupancy of j (0 where j is empty)
hazard(hz, t, s) ==
    Mat([i \in States |-> [j \in States |->
        IF hz.kind = "contact" THEN hz.base[i][j] * s[j] ELSE hz.base[i][j]]])

\* rate_matrix * time_step
Scale(r, dt) == Mat([i \in States |-> [j \in States |-> r[i][j] * dt]])

----------------------------------------------------------------------------
(* chain_binomial_propagate *)

\* a sample that is NaN, outside the naturals
NaNCount == -1

\* tf.clip_by_value(x, 0, 1); NaN stays NaN
ClipByValue(x) ==
    IF IsNaN(x) THEN NaN
    ELSE IF Leq(x, Zero) THEN Zero
    ELSE IF Leq(One, x) THEN One
    ELSE x

\* the values tfd.Binomial(total_count = n, probs = p).sample() can take;
\* with no trials the draw is 0 whatever p is
BinomialSupport(n, p) ==
    IF n = 0 THEN {0}
    ELSE IF n < 0 \/ IsNaN(p) THEN {NaNCount}
    ELSE IF IsZero(p) THEN {0}
    ELSE IF p = One THEN {n}
    ELSE 0..n

RECURSIVE Draws(_, _)
\* the vectors <<x[1], ..., x[k]>> with every x[r] in support[r]
Draws(support, k) ==
    IF k = 0 THEN {<<>>}
    ELSE {Append(v, x) : v \in Draws(support, k - 1), x \in support[k]}

\* binom.sample(): one draw per source compartment, for destination i
BinomialSamples(total_count, probs, prev_probs) ==
    LET p == Vec([r \in States |->
                ClipByValue(Div(probs[r], Sub(One, prev_probs[r])))])
        support == Vec([r \in States |->
                BinomialSupport(total_count[r], p[r])])
    IN  Draws(support, NumStates)

\* the trials left untouched by a draw
DecrementKeep(total_count, smp) == total_count

\* total_count -= sample
Decrement(total_count, smp) ==
    Vec([r \in States |-> total_count[r] - smp[r]])

RECURSIVE PropagateLoop(_, _, _, _, _)
\* the for loop over i in range(num_states - 1), then the last column;
\* counts is a sequence of columns, counts[i][r] the moves from r to i
PropagateLoop(mt, i, total_count, prev_probs, counts) ==
    IF i > NumStates - 1
    THEN {Append(counts, total_count)}
    ELSE LET probs == Vec([r \in States |-> mt[r][i]])
         IN  UNION {PropagateLoop(mt, i + 1,
                        Decrement(total_count, smp),
                        Vec([r \in States |-> Add(prev_probs[r], probs[r])]),
                        Append(counts, smp)) :
                    smp \in BinomialSamples(total_count, probs, prev_probs)}

\* the sum over the destination compartments (axis=-1)
ReduceSumRows(counts) ==
    Vec([j \in States |-> IntSumTo(counts[j], NumStates)])

\* tf.reduce_sum(counts, axis=-2): sum over the source compartments
ReduceSumSources(counts) ==
    Vec([j \in States |-> IntSumTo([r \in States |-> counts[r][j]], NumStates)])

\* markov_transition = approx_expm(h(t, state) * time_step)
markov_of(hz, dt, t, s) == approx_expm(Scale(hazard(hz, t, s), dt))

\* the set of (counts, new_state) that propagate_fn(t, state) can return once
\* markov_transition is mt; counts[r][j] is the number moving from r to j
propagate_fn(mt, s) ==
    LET cols == PropagateLoop(mt, 1, s, Vec([r \in States |-> Zero]), <<>>)
    IN  {[counts |-> c, new_state |-> ReduceSumSources(c)] :
            c \in {Mat([r \in States |-> [j \in States |-> col[j][r]]]) :
                     col \in cols}}

\* occupancy vectors of at most MaxPop individuals
Occupancies ==
    {s \in [States -> 0..MaxPop] : IntSumTo(s, NumStates) <= MaxPop}

----------------------------------------------------------------------------
(* Specification of approx_expm over all rate matrices *)

\* before propagate_fn has returned
NoResult == [counts |-> <<>>, new_state |-> <<>>]

IdleExpm == rates = <<>> /\ expm_out = <<>>
IdlePropagate ==
    /\ h = <<>> /\ time_step = 0 /\ state = <<>>
    /\ markov_transition = <<>> /\ prop_out = NoResult
IdleSim == init_state = <<>> /\ num_times = 0 /\ sim_i = 0 /\ output = <<>>
IdleEvents ==
    /\ current_state = <<>> /\ device = "" /\ draws = <<>>
    /\ event_step = [pc |-> "idle"]
IdleSample ==
    /\ n_samples = 0 /\ num_event_updates = 0 /\ joint_state = <<>>
    /\ results = <<>> /\ sweep = 0 /\ inner = 0 /\ pc = "idle"
    /\ kernel_call = [made |-> FALSE] /\ sweep_accepts = TRUE
    /\ steps = <<>> /\ sample_accum = <<>> /\ results_accum = <<>>
IdleLogProb ==
    /\ events = <<>> /\ stoichiometry = <<>> /\ state_timeseries = <<>>
    /\ prob_accum = <<>> /\ event_matrix = <<>> /\ log_prob = [kind |-> "none"]
IdleWalk == walk_state = <<>> /\ walk_noise = <<>> /\ walk_out = <<>>
IdleGibbs ==
    /\ gibbs_state = <<>> /\ step_results = <<>> /\ gibbs_i = 0
    /\ gibbs_sweep = 0 /\ gibbs_call = [made |-> FALSE]

InitExpm ==
    /\ \E r \in RateMatrices(MaxActiveRows), dt \in TimeSteps :
        rates = Scale(r, dt)
    /\ expm_out = <<>>
    /\ IdlePropagate
    /\ IdleWalk
    /\ IdleLogProb
    /\ IdleSim
    /\ IdleEvents
    /\ IdleSample
    /\ IdleGibbs

CallApproxExpm ==
    /\ expm_out = <<>>
    /\ expm_out' = approx_expm(rates)
    /\ UNCHANGED <<rates, propVars, simVars, eventVars, sampleVars,
                   gibbsVars,
                   walkVars, logProbVars>>

NextExpm == CallApproxExpm

SpecExpm == InitExpm /\ [][NextExpm]_vars

----------------------------------------------------------------------------
(* Specification of one call of propagate_fn *)

InitPropagate ==
    /\ h \in Hazards
    /\ time_step \in TimeSteps
    /\ state \in Occupancies
    /\ markov_transition = <<>>
    /\ prop_out = NoResult
    /\ IdleExpm
    /\ IdleWalk
    /\ IdleLogProb
    /\ IdleSim
    /\ IdleEvents
    /\ IdleSample
    /\ IdleGibbs

CallPropagate ==
    /\ prop_out = NoResult
    /\ markov_transition' = markov_of(h, time_step, 0, state)
    /\ \E res \in propagate_fn(markov_transition', state) : prop_out' = res
    /\ UNCHANGED <<h, time_step, state, expmVars, simVars, eventVars, sampleVars,
                   gibbsVars,
                   walkVars, logProbVars>>

NextPropagate == CallPropagate

SpecPropagate == InitPropagate /\ [][NextPropagate]_vars

----------------------------------------------------------------------------
(* Specification of discrete_markov_simulation *)

\* discrete_markov_simulation called, its loop not yet entered
SimStart ==
    /\ h \in Hazards
    /\ time_step \in TimeSteps
    /\ init_state \in Occupancies
    /\ state = init_state
    /\ num_times \in 0..NumSteps
    /\ sim_i = 0
    /\ output = <<>>
    /\ markov_transition = <<>>
    /\ prop_out = NoResult

InitSim ==
    /\ SimStart
    /\ IdleExpm
    /\ IdleWalk
    /\ IdleLogProb
    /\ IdleEvents
    /\ IdleSample
    /\ IdleGibbs

\* body(i, state, output) of the while loop, taken while cond holds
SimBody ==
    /\ sim_i < num_times
    /\ markov_transition' = markov_of(h, time_step, sim_i, state)
    /\ \E res \in propagate_fn(markov_transition', state) :
        /\ prop_out' = res
        /\ state' = res.new_state
        /\ output' = Append(output, res.counts)
    /\ sim_i' = sim_i + 1
    /\ UNCHANGED <<h, time_step, init_state, num_times, expmVars, eventVars, sampleVars,
                   gibbsVars,
                   walkVars, logProbVars>>

NextSim == SimBody

SpecSim == InitSim /\ [][NextSim]_vars

----------------------------------------------------------------------------
(* UncalibratedEventTimesUpdate *)

Times == 0..(NumTimes - 1)
Metas == 0..(NumMeta - 1)
EventTypes == 0..(NumEventTypes - 1)

\* the kernel for the E->I events, between S->E and I->R
target_event_id == 1
prev_event_id == 0
next_event_id == 2

RECURSIVE Fill(_, _)
\* the sequences of n naturals that total at most k
Fill(n, k) ==
    IF n = 0 THEN {<<>>}
    ELSE UNION {{Append(q, c) : q \in Fill(n - 1, k - c)} : c \in 0..k}

\* the event tensors [T, M, X] of non-negative counts, k events in all
EventTensors(k) ==
    {[t \in Times |-> [m \in Metas |-> [x \in EventTypes |->
        q[(t * NumMeta + m) * NumEventTypes + x + 1]]]] :
        q \in Fill(NumTimes * NumMeta * NumEventTypes, k)}

RECURSIVE Cumsum(_, _, _, _)
\* tf.cumsum over time of series x of subpopulation m, read at time t
Cumsum(cs, t, m, x) ==
    IF t < 0 THEN 0 ELSE Cumsum(cs, t - 1, m, x) + cs[t][m][x]

Abs(k) == IF k < 0 THEN 0 - k ELSE k

\* tf.clip_by_value(i, 0, num_times - 1)
ClipIndex(i) == IF i < 0 THEN 0 ELSE IF i > NumTimes - 1 THEN NumTimes - 1 ELSE i

\* the sentinel log-density
NegInfLogProb == <<"-inf">>

\* target_log_prob_fn applied to a state: the term itself
TargetLogProb(s) == <<"logp", s>>

\* x_star = floor(u * n_max) for the draw u = k / UDenom in [0, 1)
XStar(cs, k, move_to_index, constraining_events) ==
    [m \in Metas |->
        LET n_max == Abs(Cumsum(cs, move_to_index, m, constraining_events)
                         - Cumsum(cs, move_to_index, m, target_event_id))
        IN  (k * n_max) \div UDenom]

\* a scatter that reaches every transition type at time t
ScatterAddAllTypes(cs, t, x_star, sign) ==
    [s \in Times |-> [m \in Metas |-> [x \in EventTypes |->
        IF s = t THEN cs[s][m][x] + sign * x_star[m] ELSE cs[s][m][x]]]]

\* tf.tensor_scatter_nd_sub / _add at [t, m, target_event_id] for every m;
\* an index outside the tensor is skipped here (see OneStep for the CPU)
ScatterAdd(cs, t, x_star, sign) ==
    [s \in Times |-> [m \in Metas |-> [x \in EventTypes |->
        IF s = t /\ x = target_event_id
        THEN cs[s][m][x] + sign * x_star[m]
        ELSE cs[s][m][x]]]]

\* one_step(current_state, _) under the draws t_star, u < 0.5 and k
one_step(cs, dev, t_star, below, k) ==
    LET direction == IF below THEN 0 - 1 ELSE 1
        constraining_events == IF below THEN prev_event_id ELSE next_event_id
        real_move_to_index == t_star + direction
        move_to_index == ClipIndex(real_move_to_index)
        x_star == XStar(cs, k, move_to_index, constraining_events)
        in_range == 0 <= real_move_to_index /\ real_move_to_index < NumTimes
        next_state == ScatterAdd(ScatterAdd(cs, t_star, x_star, 0 - 1),
                                 real_move_to_index, x_star, 1)
    IN  IF ~in_range /\ dev = "CPU"
        THEN [pc |-> "raised", t_star |-> t_star, direction |-> direction,
              x_star |-> x_star]
        ELSE [pc |-> "returned", t_star |-> t_star, direction |-> direction,
              x_star |-> x_star, next_state |-> next_state,
              target_log_prob |->
                  IF in_range THEN TargetLogProb(next_state)
                  ELSE NegInfLogProb]

Devices == {"CPU", "GPU"}

InitEvents ==
    /\ current_state \in EventTensors(MaxEvents)
    /\ device \in Devices
    /\ draws = <<>>
    /\ event_step = [pc |-> "start"]
    /\ IdleExpm
    /\ IdleWalk
    /\ IdleLogProb
    /\ IdlePropagate
    /\ IdleSim
    /\ IdleSample
    /\ IdleGibbs

OneStep ==
    /\ event_step.pc = "start"
    /\ \E t_star \in Times, below \in BOOLEAN, k \in 0..(UDenom - 1) :
        /\ draws' = [t_star |-> t_star, below |-> below, k |-> k]
        /\ event_step' = one_step(current_state, device, t_star, below, k)
    /\ UNCHANGED <<current_state, device, expmVars, propVars, simVars,
                   sampleVars, gibbsVars,
                   walkVars, logProbVars>>

NextEvents == OneStep

SpecEvents == InitEvents /\ [][NextEvents]_vars

----------------------------------------------------------------------------
(* Metropolis-Hastings steps and the forwarding of results *)

\* the values a block of the joint state can take
Values == 1..NumValues

\* logp(*state): the joint log-density of a joint state, as the term itself
logp(st) == <<"logp", st>>

\* the per-block closures par_logp, state_logp, occult_logp and
\* _target_log_prob_fn_part: they write the part into the shared state and
\* evaluate the joint density there
target_log_prob_fn_part(st, b, part) ==
    LET written == [st EXCEPT ![b] = part]
    IN  [state |-> written, target_log_prob |-> logp(written)]

\* kernel.bootstrap_results(state[b]) of a MetropolisHastings kernel; of the
\* kernel results only accepted_results.target_log_prob, the field that is
\* forwarded, is kept
bootstrap_results(st, b) ==
    LET target == target_log_prob_fn_part(st, b, st[b])
    IN  [accepted_results |-> target.target_log_prob]

\* forward_results(prev_results, next_results):
\* next_results with the accepted target log-density of prev_results
forward_results(prev_results, next_results) ==
    [next_results EXCEPT !.accepted_results = prev_results.accepted_results]

\* one_step without the caller's assignment to state[b]: the state is left
\* as the closure wrote it
mh_one_step_unassigned(st, b, previous_kernel_results, proposed, accept) ==
    LET target == target_log_prob_fn_part(st, b, proposed)
    IN  [state |-> target.state,
         results |->
            [accepted_results |->
                IF accept THEN target.target_log_prob
                ELSE previous_kernel_results.accepted_results]]

\* MetropolisHastings(...).one_step(state[b], previous_kernel_results) for
\* the proposal `proposed` and the acceptance draw `accept`; the closure
\* leaves the proposal in state[b], the caller's assignment replaces it
mh_one_step(st, b, previous_kernel_results, proposed, accept) ==
    LET target == target_log_prob_fn_part(st, b, proposed)
        next_part == IF accept THEN proposed ELSE st[b]
    IN  [state |-> [target.state EXCEPT ![b] = next_part],
         results |->
            [accepted_results |->
                IF accept THEN target.target_log_prob
                ELSE previous_kernel_results.accepted_results]]

----------------------------------------------------------------------------
(* sample() of src/mcmc.py *)

\* the kernels in results[0..4]
ParameterKernel == 0
SeMoveKernel == 1
EiMoveKernel == 2
SeOccultKernel == 3
EiOccultKernel == 4
SampleKernels == ParameterKernel..EiOccultKernel

\* the blocks of the joint state
ParameterBlock == 1
EventBlock == 2
OccultBlock == 3

JointStates == [ParameterBlock..OccultBlock -> Values]

\* the results a parameter step is handed its previous log-density from
ParameterSource == EiMoveKernel

\* cond(i, ...) of the outer loop
cond(i) == i < n_samples

\* an infec_cond that lets the loop body run once more
infec_cond_inclusive(j) == j <= num_event_updates

\* infec_cond(j, ...) of the inner loop
infec_cond(j) == j < num_event_updates

\* sample() entered with current_state drawn from starts
SampleStart(starts) ==
    /\ n_samples \in 1..MaxSweeps
    /\ num_event_updates \in 0..MaxEventUpdates
    /\ joint_state \in starts
    /\ results = [k \in SampleKernels |->
         bootstrap_results(joint_state,
             CASE k = ParameterKernel -> ParameterBlock
               [] k \in {SeMoveKernel, EiMoveKernel} -> EventBlock
               [] OTHER -> OccultBlock)]
    /\ sweep = 0
    /\ inner = 0
    /\ pc = "parameter"
    /\ kernel_call = [made |-> FALSE]
    /\ sweep_accepts = TRUE
    /\ steps = <<>>
    /\ sample_accum = [b \in ParameterBlock..OccultBlock |-> {}]
    /\ results_accum = [k \in SampleKernels |-> {}]
    /\ IdleExpm
    /\ IdleWalk
    /\ IdleLogProb
    /\ IdlePropagate
    /\ IdleSim
    /\ IdleEvents
    /\ IdleGibbs

InitSample == SampleStart(JointStates)

\* kernel k steps on block b, handed results[source]'s accepted log-density
KernelStep(k, b, source, proposed, accept) ==
    LET handed == forward_results(results[source], results[k])
        step == mh_one_step(joint_state, b, handed, proposed, accept)
    IN  [state |-> step.state,
         results |-> [results EXCEPT ![k] = step.results],
         call |-> [made |-> TRUE, kernel |-> k, block |-> b,
                   accepted |-> accept, proposed |-> proposed,
                   forwarded |-> handed.accepted_results,
                   current |-> logp(joint_state),
                   before |-> joint_state]]

\* lines 227-236: the parameter kernel, then results[4] takes its log-density
ParameterStep ==
    /\ pc = "parameter"
    /\ cond(sweep)
    /\ \E proposed \in Values, accept \in BOOLEAN :
        LET step == KernelStep(ParameterKernel, ParameterBlock,
                               ParameterSource, proposed, accept)
        IN  /\ joint_state' = step.state
            /\ results' = [step.results EXCEPT ![EiOccultKernel] =
                  forward_results(step.results[ParameterKernel],
                                  step.results[EiOccultKernel])]
            /\ kernel_call' = step.call
            /\ sweep_accepts' = accept
    /\ steps' = <<ParameterKernel>>
    /\ inner' = 0
    /\ pc' = IF infec_cond(0) THEN "se_move" ELSE "record"
    /\ UNCHANGED <<n_samples, num_event_updates, sweep, sample_accum,
                   results_accum>>
    /\ UNCHANGED <<expmVars, propVars, simVars, eventVars, gibbsVars,
                   walkVars, logProbVars>>

\* one kernel of infec_body
InfecStep(here, k, b, source, there) ==
    /\ pc = here
    /\ \E proposed \in Values, accept \in BOOLEAN :
        LET step == KernelStep(k, b, source, proposed, accept)
        IN  /\ joint_state' = step.state
            /\ results' = step.results
            /\ kernel_call' = step.call
            /\ sweep_accepts' = (sweep_accepts /\ accept)
    /\ steps' = Append(steps, k)
    /\ pc' = there
    /\ UNCHANGED <<n_samples, num_event_updates, sweep, sample_accum,
                   results_accum>>
    /\ UNCHANGED <<expmVars, propVars, simVars, eventVars, gibbsVars,
                   walkVars, logProbVars>>

\* lines 247-249
SeMoveStep ==
    /\ InfecStep("se_move", SeMoveKernel, EventBlock, EiOccultKernel,
                 "ei_move")
    /\ UNCHANGED inner

\* lines 250-252
EiMoveStep ==
    /\ InfecStep("ei_move", EiMoveKernel, EventBlock, SeMoveKernel,
                 "se_occult")
    /\ UNCHANGED inner

\* lines 253-255
SeOccultStep ==
    /\ InfecStep("se_occult", SeOccultKernel, OccultBlock, EiMoveKernel,
                 "ei_occult")
    /\ UNCHANGED inner

\* lines 257-262: the last kernel of infec_body, j += 1, then infec_cond
EiOccultStep ==
    /\ InfecStep("ei_occult", EiOccultKernel, OccultBlock, SeOccultKernel,
                 IF infec_cond(inner + 1) THEN "se_move" ELSE "record")
    /\ inner' = inner + 1

\* lines 273-281: the end of body, i + 1, then cond
Record ==
    /\ pc = "record"
    /\ sample_accum' = [b \in DOMAIN sample_accum |->
                           sample_accum[b] \cup {sweep}]
    /\ results_accum' = [k \in DOMAIN results_accum |->
                            results_accum[k] \cup {sweep}]
    /\ sweep' = sweep + 1
    /\ pc' = IF cond(sweep + 1) THEN "parameter" ELSE "done"
    /\ UNCHANGED <<n_samples, num_event_updates, joint_state, results, inner,
                   kernel_call, sweep_accepts, steps>>
    /\ UNCHANGED <<expmVars, propVars, simVars, eventVars, gibbsVars,
                   walkVars, logProbVars>>

NextSample ==
    \/ ParameterStep
    \/ SeMoveStep
    \/ EiMoveStep
    \/ SeOccultStep
    \/ EiOccultStep
    \/ Record

SpecSample == InitSample /\ [][NextSample]_vars

\* the loops of sample() run on: a step that can be taken is taken; the
\* schedule does not read the chain's values, so one starting point is drawn
InitSchedule == SampleStart({[b \in ParameterBlock..OccultBlock |-> 1]})

SpecSampleFair == InitSchedule /\ [][NextSample]_vars /\ WF_vars(NextSample)

----------------------------------------------------------------------------
(* MH_within_Gibbs of src/covid/impl/mcmc.py *)

\* the indices of make_kernel_fns; kernel i updates state[i]
Kernels == 0..(NumKernels - 1)

GibbsStates == [1..NumKernels -> Values]

\* the index list without the roll: every kernel its own predecessor
prev_step_unrolled(i) == i

\* prev_step[i] of np.roll(np.arange(len(make_kernel_fns)), 1)
prev_step(i) == (i + NumKernels - 1) % NumKernels

\* advance_target_log_prob(next_results, previous_results)
advance_target_log_prob(next_results, previous_results) ==
    [next_results EXCEPT
        !.accepted_results = previous_results.accepted_results]

InitGibbs ==
    /\ gibbs_state \in GibbsStates
    /\ step_results = <<>>
    /\ gibbs_i = 0
    /\ gibbs_sweep = 0
    /\ gibbs_call = [made |-> FALSE]
    /\ IdleExpm
    /\ IdleWalk
    /\ IdleLogProb
    /\ IdlePropagate
    /\ IdleSim
    /\ IdleEvents
    /\ IdleSample

\* MH_within_Gibbs.bootstrap_results(state)
GibbsBootstrap ==
    /\ gibbs_state # <<>>
    /\ step_results = <<>>
    /\ step_results' =
         [i \in Kernels |-> bootstrap_results(gibbs_state, i + 1)]
    /\ UNCHANGED <<gibbs_state, gibbs_i, gibbs_sweep, gibbs_call>>
    /\ UNCHANGED <<expmVars, propVars, simVars, eventVars, sampleVars,
                   walkVars, logProbVars>>

\* one iteration of the loop of MH_within_Gibbs.one_step(state, step_results);
\* the last one returns
GibbsKernelStep ==
    /\ step_results # <<>>
    /\ gibbs_sweep < MaxSweeps
    /\ \E proposed \in Values, accept \in BOOLEAN :
        LET i == gibbs_i
            handed == advance_target_log_prob(step_results[i],
                                              step_results[prev_step(i)])
            step == mh_one_step(gibbs_state, i + 1, handed, proposed, accept)
        IN  /\ gibbs_state' = step.state
            /\ step_results' = [step_results EXCEPT ![i] = step.results]
            /\ gibbs_call' =
                 [made |-> TRUE, kernel |-> i, sweep |-> gibbs_sweep,
                  block |-> i + 1, accepted |-> accept,
                  proposed |-> proposed,
                  before |-> gibbs_state,
                  forwarded |-> handed.accepted_results,
                  own |-> step_results[i].accepted_results,
                  current |-> logp(gibbs_state)]
    /\ gibbs_i' = (gibbs_i + 1) % NumKernels
    /\ gibbs_sweep' = IF gibbs_i + 1 = NumKernels THEN gibbs_sweep + 1
                      ELSE gibbs_sweep
    /\ UNCHANGED <<expmVars, propVars, simVars, eventVars, sampleVars,
                   walkVars, logProbVars>>

NextGibbs ==
    \/ GibbsBootstrap
    \/ GibbsKernelStep

SpecGibbs == InitGibbs /\ [][NextGibbs]_vars

----------------------------------------------------------------------------
(* discrete_markov_log_prob *)

Transitions == 1..NumEventTypes

\* the cells handed to make_transition_matrix, counted from 1
rates_coords == <<<<1, 2>>, <<2, 3>>, <<3, 4>>>>

\* the [X, S] matrix of a list of (source, destination) cells: each event
\* takes one from the source and gives one to the destination
StoichiometryOf(cells) ==
    [x \in Transitions |-> Vec([c \in States |->
        IF c = cells[x][1] THEN 0 - 1 ELSE IF c = cells[x][2] THEN 1 ELSE 0])]

\* the mappings passed in: the chain, one whose third type leaves the
\* second compartment, one that skips a compartment and comes back
Stoichiometries ==
    {StoichiometryOf(cells) : cells \in
        {<<<<1, 2>>, <<2, 3>>, <<3, 4>>>>,
         <<<<1, 2>>, <<2, 3>>, <<2, 4>>>>,
         <<<<1, 3>>, <<3, 4>>, <<4, 1>>>>}}

\* the event tensors [T, X] of NumSteps times with k events in all
EventSeries(k) ==
    {[t \in 1..NumSteps |-> [x \in Transitions |->
        q[(t - 1) * NumEventTypes + x]]] :
        q \in Fill(NumSteps * NumEventTypes, k)}

RECURSIVE PrefixIncrement(_, _, _, _)
\* what the events of the first u times add to compartment c
PrefixIncrement(ev, st, u, c) ==
    IF u = 0 THEN 0
    ELSE PrefixIncrement(ev, st, u - 1, c)
         + IntSumTo([x \in Transitions |-> ev[u][x] * st[x][c]],
                    NumEventTypes)

\* compute_state(init_state, events, stoichiometry): the occupancy at each
\* time, before the events of that time
compute_state(init, ev, st) ==
    [t \in 1..Len(ev) |->
        Vec([c \in States |-> init[c] + PrefixIncrement(ev, st, t - 1, c)])]

\* make_transition_matrix(events, coords, shape): the count of each type in
\* its cell, 0 elsewhere
make_transition_matrix(ev, coords) ==
    [t \in 1..Len(ev) |-> Mat([i \in States |-> [j \in States |->
        IntSumTo([x \in Transitions |->
                     IF coords[x] = <<i, j>> THEN ev[t][x] ELSE 0],
                 NumEventTypes)]])]

\* a diagonal that forgets the occupancy
SetDiagOutflow(em, sts) ==
    [t \in 1..Len(em) |-> Mat([i \in States |-> [j \in States |->
        IF i = j THEN 0 - IntSumTo(em[t][i], NumStates) ELSE em[t][i][j]]])]

\* tf.linalg.set_diag(event_matrix,
\*                    state_timeseries - tf.reduce_sum(event_matrix, axis=-1))
SetDiagStayed(em, sts) ==
    [t \in 1..Len(em) |-> Mat([i \in States |-> [j \in States |->
        IF i = j THEN sts[t][i] - IntSumTo(em[t][i], NumStates)
        ELSE em[t][i][j]]])]

\* body: prob_matrix = approx_expm(hazard_fn(t, state_t) * time_step)
ProbMatrices(sts) ==
    [t \in 1..Len(sts) |-> markov_of(h, time_step, t - 1, sts[t])]

RECURSIVE Factorial(_)
Factorial(n) == IF n <= 1 THEN 1 ELSE n * Factorial(n - 1)

RECURSIVE FactorialProduct(_, _)
FactorialProduct(k, j) ==
    IF j = 0 THEN 1 ELSE FactorialProduct(k, j - 1) * Factorial(k[j])

\* whether Multinomial(n, p).log_prob(k) of one row is a number: "nan" for
\* counts that are no outcome of n trials or a positive count against an
\* undefined or negative probability, "-inf" for a positive count against
\* probability 0; a count of 0 contributes 0 whatever its probability
RowKind(n, k, p) ==
    IF \/ n < 0
       \/ \E j \in States : k[j] < 0
       \/ IntSumTo(k, NumStates) # n
       \/ \E j \in States : k[j] > 0 /\ (~IsFinite(p[j]) \/ p[j].n < 0)
    THEN "nan"
    ELSE IF \E j \in States : k[j] > 0 /\ IsZero(p[j]) THEN "-inf"
    ELSE "finite"

RECURSIVE RowTerms(_, _, _)
\* the terms k[j] * log(p[j]) of one row, for the positive counts
RowTerms(k, p, j) ==
    IF j = 0 THEN <<>>
    ELSE IF k[j] > 0 THEN Append(RowTerms(k, p, j - 1), <<k[j], p[j]>>)
    ELSE RowTerms(k, p, j - 1)

\* log of the number of ways, log(n! / prod k[j]!), kept as that number
RowCombinations(n, k) ==
    LET ways == Factorial(n) \div FactorialProduct(k, NumStates)
    IN  IF ways = 1 THEN <<>> ELSE <<<<"log", ways>>>>

RECURSIVE SumLogProb(_, _, _, _)
\* tf.reduce_sum of the rows' log_prob, rows r = (t - 1) * NumStates + i
SumLogProb(sts, pm, em, r) ==
    IF r = 0 THEN [kind |-> "finite", terms |-> <<>>]
    ELSE LET t == ((r - 1) \div NumStates) + 1
             i == ((r - 1) % NumStates) + 1
             rest == SumLogProb(sts, pm, em, r - 1)
             kind == RowKind(sts[t][i], em[t][i], pm[t][i])
         IN  IF rest.kind = "nan" \/ kind = "nan"
             THEN [kind |-> "nan", terms |-> <<>>]
             ELSE IF rest.kind = "-inf" \/ kind = "-inf"
             THEN [kind |-> "-inf", terms |-> <<>>]
             ELSE [kind |-> "finite",
                   terms |-> rest.terms
                             \o RowCombinations(sts[t][i], em[t][i])
                             \o RowTerms(em[t][i], pm[t][i], NumStates)]

\* tf.reduce_sum(tfd.Multinomial(state_timeseries, probs).log_prob(
\*     event_matrix)): the sum as the sequence of its terms
MultinomialLogProb(sts, pm, em) ==
    SumLogProb(sts, pm, em, Len(sts) * NumStates)

\* discrete_markov_log_prob(events, init_state, hazard_fn, time_step,
\* stoichiometry) from line 101 on
Score(ev) ==
    /\ state_timeseries' = compute_state(init_state, ev, stoichiometry)
    /\ prob_accum' = ProbMatrices(state_timeseries')
    /\ event_matrix' =
         SetDiagStayed(make_transition_matrix(ev, rates_coords),
                       state_timeseries')
    /\ log_prob' =
         MultinomialLogProb(state_timeseries', prob_accum', event_matrix')

\* the arguments of a call, with event tensors of k events
LogProbStart(k) ==
    /\ h \in Hazards
    /\ time_step \in TimeSteps
    /\ init_state \in Occupancies
    /\ events \in EventSeries(k)
    /\ stoichiometry \in Stoichiometries
    /\ state_timeseries = <<>>
    /\ prob_accum = <<>>
    /\ event_matrix = <<>>
    /\ log_prob = [kind |-> "none"]
    /\ state = <<>>
    /\ markov_transition = <<>>
    /\ prop_out = NoResult
    /\ num_times = 0
    /\ sim_i = 0
    /\ output = <<>>
    /\ IdleExpm
    /\ IdleWalk
    /\ IdleEvents
    /\ IdleSample
    /\ IdleGibbs

InitLogProb == LogProbStart(MaxScored)

\* a call on an all-zero event tensor
InitStay == LogProbStart(0)

CallLogProb ==
    /\ events # <<>>
    /\ log_prob.kind = "none"
    /\ Score(events)
    /\ UNCHANGED <<events, stoichiometry, expmVars, propVars, simVars,
                   eventVars, sampleVars, gibbsVars, walkVars>>

NextLogProb == CallLogProb

SpecLogProb == InitLogProb /\ [][NextLogProb]_vars

SpecStay == InitStay /\ [][NextLogProb]_vars

----------------------------------------------------------------------------
(* A simulated trajectory scored by discrete_markov_log_prob *)

InitRoundTrip ==
    /\ SimStart
    /\ events = <<>>
    /\ stoichiometry = StoichiometryOf(rates_coords)
    /\ state_timeseries = <<>>
    /\ prob_accum = <<>>
    /\ event_matrix = <<>>
    /\ log_prob = [kind |-> "none"]
    /\ IdleExpm
    /\ IdleWalk
    /\ IdleEvents
    /\ IdleSample
    /\ IdleGibbs

\* the simulation has returned: its counts in the cells of the three
\* transition types are the event tensor, scored with the same hazard
\* function, initial state and time step
ScoreTrajectory ==
    /\ sim_i = num_times
    /\ log_prob.kind = "none"
    /\ events' = [t \in 1..num_times |-> [x \in Transitions |->
                     output[t][rates_coords[x][1]][rates_coords[x][2]]]]
    /\ Score(events')
    /\ UNCHANGED <<stoichiometry, expmVars, propVars, simVars, eventVars,
                   sampleVars, gibbsVars, walkVars>>

NextRoundTrip ==
    \/ SimBody
    \/ ScoreTrajectory

SpecRoundTrip == InitRoundTrip /\ [][NextRoundTrip]_vars

----------------------------------------------------------------------------
(* UncalibratedLogRandomWalk of src/covid/impl/mcmc.py *)

Components == 1..NumComponents

\* tf.exp(x) at a whole x, to three decimals
Exp(x) ==
    IF ~IsFinite(x) THEN x
    ELSE IF x.n <= 0 THEN ExpNeg(Neg(x))
    ELSE CASE x.n \div Unit = 1 -> Float(2718)
           [] x.n \div Unit = 2 -> Float(7389)
           [] x.n \div Unit = 3 -> Float(20086)
           [] OTHER -> Inf

\* the positive states: multiples of a half
WalkStates == [Components -> {Float(500 * c) : c \in 1..MaxCurrent}]

\* the draws of new_state_fn at zeros: whole noise in each component
WalkNoises == [Components -> {OfInt(k) : k \in (0 - MaxNoise)..MaxNoise}]

\* one_step(current_state, _) for the draw ns of new_state_fn
log_random_walk_one_step(cs, ns) ==
    LET next_state_parts == [c \in Components |-> Mul(cs[c], Exp(ns[c]))]
    IN  [next_state |-> next_state_parts,
         log_acceptance_correction |->
             Sub(SumTo(next_state_parts, NumComponents),
                 SumTo(cs, NumComponents)),
         target_log_prob |-> <<"logp", next_state_parts>>]

InitWalk ==
    /\ walk_state \in WalkStates
    /\ walk_noise = <<>>
    /\ walk_out = <<>>
    /\ IdleLogProb
    /\ IdleExpm
    /\ IdlePropagate
    /\ IdleSim
    /\ IdleEvents
    /\ IdleSample
    /\ IdleGibbs

WalkOneStep ==
    /\ walk_out = <<>>
    /\ \E ns \in WalkNoises :
        /\ walk_noise' = ns
        /\ walk_out' = log_random_walk_one_step(walk_state, ns)
    /\ UNCHANGED <<walk_state, expmVars, propVars, simVars, eventVars,
                   sampleVars, gibbsVars, logProbVars>>

NextWalk == WalkOneStep

SpecWalk == InitWalk /\ [][NextWalk]_vars

----------------------------------------------------------------------------
(* The Gibbs layer: a run of sample() or of MH_within_Gibbs *)

InitLayer == InitSample \/ InitGibbs

NextLayer ==
    \/ NextSample
    \/ NextGibbs

SpecLayer == InitLayer /\ [][NextLayer]_vars

----------------------------------------------------------------------------
(* Claims about approx_expm *)

IsOne(x) == x = One
ExpmReturned == expm_out # <<>>
TotalRate(i) == IntSumTo(rates[i], NumStates)

\* C9: for every rate matrix with non-negative entries and a zero diagonal,
\* every row of the matrix approx_expm returns sums to 1 and every entry of
\* it, on and off the diagonal, lies in [0, 1].
C9_RowsStochastic ==
    ExpmReturned =>
        \A i \in States :
            /\ IsOne(ReduceSum(expm_out[i]))
            /\ \A j \in States : InUnit(expm_out[i][j])

\* a row that leaves for two compartments and stays with a probability
\* strictly between 0 and 1
C9_Witness ==
    /\ ExpmReturned
    /\ \E i \in States : \E j, k \in States \ {i} :
        /\ j # k
        /\ expm_out[i][j].n > 0 /\ expm_out[i][k].n > 0
        /\ expm_out[i][i].n > 0 /\ expm_out[i][i].n < Unit

\* C10: a row of the rate matrix whose total rate is 0 comes back as the
\* identity row: 1 on the diagonal, 0 off it, and no NaN from the 0/0.
C10_ZeroRowIdentity ==
    ExpmReturned =>
        \A i \in States : TotalRate(i) = 0 =>
            /\ IsOne(expm_out[i][i])
            /\ \A j \in States \ {i} : IsZero(expm_out[i][j])
            /\ \A j \in States : ~IsNaN(expm_out[i][j])

\* a matrix with a zero row next to a row with a positive rate
C10_Witness ==
    /\ ExpmReturned
    /\ \E i, k \in States :
        /\ TotalRate(i) = 0 /\ IsOne(expm_out[i][i])
        /\ TotalRate(k) > 0

----------------------------------------------------------------------------
(* Claims about propagate_fn and discrete_markov_simulation *)

Propagated == prop_out # NoResult
RowTotal(counts, r) == IntSumTo(counts[r], NumStates)
ColumnTotal(counts, j) ==
    IntSumTo([r \in States |-> counts[r][j]], NumStates)
Population(s) == IntSumTo(s, NumStates)

\* C7: the counts matrix propagate_fn returns has only non-negative integer
\* entries, and the row of each source compartment sums exactly to the
\* occupancy of that compartment passed in, the last destination holding
\* what the draws for the others left.
C7_RowsSumToOccupancy ==
    Propagated =>
        \A r \in States :
            /\ \A j \in States : prop_out.counts[r][j] \in Nat
            /\ RowTotal(prop_out.counts, r) = state[r]
            /\ prop_out.counts[r][NumStates] =
                 state[r] - IntSumTo(prop_out.counts[r], NumStates - 1)

\* a compartment of two or more of which some stay and some leave
C7_Witness ==
    /\ Propagated
    /\ \E r \in States : \E j \in States \ {r} :
        /\ state[r] >= 2
        /\ prop_out.counts[r][r] > 0
        /\ prop_out.counts[r][j] > 0

\* C8: after each step of discrete_markov_simulation the occupancy carried
\* forward is the column sums of that step's counts matrix, is nowhere
\* negative, and totals the initial population.
C8_ClosedPopulation ==
    sim_i > 0 =>
        /\ \A j \in States :
            /\ state[j] = ColumnTotal(output[sim_i], j)
            /\ state[j] >= 0
        /\ Population(state) = Population(init_state)

\* two steps taken, each of which moved somebody
C8_Witness ==
    /\ sim_i >= 2
    /\ Len(output) = sim_i
    /\ \E r \in States : \E j \in States \ {r} : output[1][r][j] > 0
    /\ \E r \in States : \E j \in States \ {r} : output[2][r][j] > 0
    /\ state # init_state

----------------------------------------------------------------------------
(* Claims about UncalibratedEventTimesUpdate.one_step *)

Returned == event_step.pc = "returned"
Called == event_step.pc \in {"returned", "raised"}
MoveTo == event_step.t_star + event_step.direction
InRange == 0 <= MoveTo /\ MoveTo < NumTimes

NonNegative(cs) ==
    \A t \in Times, m \in Metas, x \in EventTypes : cs[t][m][x] >= 0

\* at every time no transition type has happened more often than the one
\* before it in the chain
Ordered(cs) ==
    \A t \in Times, m \in Metas, x \in EventTypes \ {0} :
        Cumsum(cs, t, m, x) <= Cumsum(cs, t, m, x - 1)

\* C4: the state one_step proposes from a tensor of non-negative counts has
\* no negative count in any series.
C4_NoNegativeEvents ==
    Returned => NonNegative(event_step.next_state)

\* C5: when t_star + direction falls outside [0, num_times), one_step
\* raises no error and returns a target log-density of -inf.
C5_OutOfRangeRejected ==
    (Called /\ ~InRange) =>
        /\ event_step.pc = "returned"
        /\ event_step.target_log_prob = NegInfLogProb

\* C6: from a tensor in which the cumulative counts are ordered along the
\* chain of transition types at every time, every in-range proposal of
\* one_step is again ordered at every time.
C6_OrderingPreserved ==
    (Returned /\ InRange /\ Ordered(current_state)) =>
        Ordered(event_step.next_state)

\* what an in-range move of x_star from t_star to t_star + direction adds
\* to the count of type x at time t in subpopulation m
Moved(t, m, x) ==
    IF x # target_event_id THEN 0
    ELSE (IF t = MoveTo THEN event_step.x_star[m] ELSE 0)
         - (IF t = event_step.t_star THEN event_step.x_star[m] ELSE 0)

\* C16: for an in-range move the proposed state differs from the current
\* one only in the target type at t_star (minus x_star) and at
\* t_star + direction (plus x_star); every other type and time is unchanged
\* and the target series keeps its total over time in every subpopulation.
C16_MoveFrame ==
    (Returned /\ InRange) =>
        /\ \A t \in Times, m \in Metas, x \in EventTypes :
              event_step.next_state[t][m][x] =
                  current_state[t][m][x] + Moved(t, m, x)
        /\ \A m \in Metas :
              Cumsum(event_step.next_state, NumTimes - 1, m, target_event_id)
                = Cumsum(current_state, NumTimes - 1, m, target_event_id)

\* an in-range move that moves at least one event
C16_Witness ==
    /\ Returned
    /\ InRange
    /\ \E m \in Metas : event_step.x_star[m] > 0
    /\ event_step.next_state # current_state

----------------------------------------------------------------------------
(* Claims about the forwarding of log-densities in sample() *)

\* C1: the target log-density handed to each kernel call of sample() as its
\* previous accepted result is the joint log-density of the joint state at
\* the moment of the call.
C1_SampleForwardsCurrent ==
    kernel_call.made => kernel_call.forwarded = kernel_call.current

\* C3: at the end of an outer sweep of sample() in which no kernel rejected,
\* the accepted log-density the next kernel call is handed, that of
\* results[2], is the joint log-density of the final joint state.
C3_SampleSweepConsistent ==
    (pc = "record" /\ sweep_accepts) =>
        results[ParameterSource].accepted_results = logp(joint_state)

\* C2: in MH_within_Gibbs.one_step, over any sequence of sweeps and
\* accept/reject outcomes, the accepted log-density a kernel is handed is
\* the joint target log-density of the joint state at the call.
C2_GibbsForwardsCurrent ==
    gibbs_call.made => gibbs_call.forwarded = gibbs_call.current

\* C2 happens: kernel 0 is called in a later sweep, after the joint state has
\* moved on from the one its own results were accepted at.
C2_Witness ==
    /\ gibbs_call.made
    /\ gibbs_call.kernel = 0
    /\ gibbs_call.sweep >= 1
    /\ gibbs_call.own # gibbs_call.current
    /\ gibbs_call.forwarded = gibbs_call.current

----------------------------------------------------------------------------
(* Claims about the Gibbs layer's frame and schedule *)

\* the parts of next that differ from those of before
Changed(before, next) == {b \in DOMAIN before : next[b] # before[b]}

\* what a kernel call may change: its own block if it accepted, else nothing
Owned(call) == IF call.accepted THEN {call.block} ELSE {}

\* C17: in MH_within_Gibbs.one_step and in sample(), after the step of the
\* kernel for block i the joint state differs from the one before the step
\* in block i only, and not at all when the proposal was rejected.
C17_BlockFrame ==
    /\ kernel_call.made =>
         Changed(kernel_call.before, joint_state) \subseteq Owned(kernel_call)
    /\ gibbs_call.made =>
         Changed(gibbs_call.before, gibbs_state) \subseteq Owned(gibbs_call)

\* a kernel of sample() rejected a proposal that differs from its block
C17_Witness ==
    /\ kernel_call.made
    /\ ~kernel_call.accepted
    /\ kernel_call.proposed # kernel_call.before[kernel_call.block]
    /\ joint_state = kernel_call.before

RECURSIVE Repetitions(_)
\* n times the sequence S->E move, E->I move, S->E occult, E->I occult
Repetitions(n) ==
    IF n = 0 THEN <<>>
    ELSE Repetitions(n - 1)
         \o <<SeMoveKernel, EiMoveKernel, SeOccultKernel, EiOccultKernel>>

\* the kernels of one outer sweep, in order
Schedule == <<ParameterKernel>> \o Repetitions(num_event_updates)

IsPrefix(a, b) == Len(a) <= Len(b) /\ SubSeq(b, 1, Len(a)) = a

\* the sweeps so far each stepped the schedule and recorded once
OnSchedule ==
    /\ sweep <= n_samples
    /\ IsPrefix(steps, Schedule)
    /\ pc \in {"record", "done"} => steps = Schedule
    /\ pc = "parameter" => (steps = <<>> /\ sweep = 0) \/ steps = Schedule
    /\ pc = "done" => sweep = n_samples
    /\ \A b \in DOMAIN sample_accum : sample_accum[b] = 0..(sweep - 1)
    /\ \A k \in DOMAIN results_accum : results_accum[k] = 0..(sweep - 1)

\* C15: sample() performs exactly n_samples outer sweeps and terminates; in
\* each the parameter kernel steps once and first, then num_event_updates
\* times the four event kernels step once each in their fixed order,
\* accepted or not; each sweep records one sample and one row per kernel.
C15_SweepSchedule == []OnSchedule /\ <>(pc = "done")

\* a run of several sweeps and repetitions, with a rejection, has ended
C15_Witness ==
    /\ pc = "done"
    /\ n_samples >= 2
    /\ num_event_updates >= 2
    /\ ~sweep_accepts
    /\ sweep = n_samples
    /\ Len(steps) = 1 + 4 * num_event_updates

----------------------------------------------------------------------------
(* Claims about UncalibratedLogRandomWalk.one_step *)

\* C13: for the proposal next = current * exp(noise), the
\* log-acceptance-correction one_step reports is the sum over the components
\* of log(next_i) - log(current_i), that is the sum of the noise components.
C13_LogJacobian ==
    walk_out # <<>> =>
        walk_out.log_acceptance_correction =
            SumTo(walk_noise, NumComponents)

----------------------------------------------------------------------------
(* Claims about discrete_markov_log_prob *)

Scored == log_prob.kind # "none"

\* the (source, destination) cell the stoichiometry assigns to type x
SourceOf(x) == CHOOSE c \in States : stoichiometry[x][c] = 0 - 1
DestinationOf(x) == CHOOSE c \in States : stoichiometry[x][c] = 1

\* the events at time t of the types the stoichiometry assigns to cell i, j
Assigned(t, i, j) ==
    IntSumTo([x \in Transitions |->
                 IF SourceOf(x) = i /\ DestinationOf(x) = j
                 THEN events[t][x] ELSE 0],
             NumEventTypes)

\* C14: for any stoichiometry passed in, the full count matrix that is
\* scored holds the count of each transition type in the cell the
\* stoichiometry assigns to it, its diagonal holds occupancy minus total
\* outflow, and each row sums to the reconstructed occupancy.
C14_CountsInMappedCells ==
    Scored =>
        \A t \in 1..Len(events) : \A i \in States :
            /\ \A j \in States \ {i} :
                 event_matrix[t][i][j] = Assigned(t, i, j)
            /\ event_matrix[t][i][i] =
                 state_timeseries[t][i]
                 - IntSumTo([j \in States |->
                                IF j = i THEN 0 ELSE event_matrix[t][i][j]],
                            NumStates)
            /\ IntSumTo(event_matrix[t][i], NumStates)
                 = state_timeseries[t][i]

\* the stay probability of compartment i at time t when nobody ever moves
StayProbability(t, i) == markov_of(h, time_step, t - 1, init_state)[i][i]

\* the rows (t, i), in order, that hold somebody
StayRows ==
    {<<t, i>> \in (1..Len(events)) \X States : init_state[i] > 0}

RECURSIVE StayTerms(_)
\* occupancy times log of the stay probability, over the rows up to row r
StayTerms(r) ==
    IF r = 0 THEN <<>>
    ELSE LET t == ((r - 1) \div NumStates) + 1
             i == ((r - 1) % NumStates) + 1
         IN  IF init_state[i] > 0
             THEN Append(StayTerms(r - 1),
                         <<init_state[i], StayProbability(t, i)>>)
             ELSE StayTerms(r - 1)

\* the log-probability that everyone stays at every time step
EveryoneStays ==
    IF \E w \in StayRows : ~IsFinite(StayProbability(w[1], w[2]))
                           \/ StayProbability(w[1], w[2]).n < 0
    THEN [kind |-> "nan", terms |-> <<>>]
    ELSE IF \E w \in StayRows : IsZero(StayProbability(w[1], w[2]))
    THEN [kind |-> "-inf", terms |-> <<>>]
    ELSE [kind |-> "finite", terms |-> StayTerms(Len(events) * NumStates)]

\* C12: for an all-zero event tensor and any hazard function the full count
\* matrix is diagonal with the initial occupancy at every time, and the
\* value returned is the sum over times and compartments of occupancy times
\* log of the stay probability.
C12_ZeroEventsEveryoneStays ==
    Scored =>
        /\ \A t \in 1..Len(events) : \A i, j \in States :
             event_matrix[t][i][j] = IF i = j THEN init_state[i] ELSE 0
        /\ log_prob = EveryoneStays

\* two compartments are occupied and somebody could have left
C12_Witness ==
    /\ Scored
    /\ \A t \in 1..Len(events) : \A x \in Transitions : events[t][x] = 0
    /\ log_prob.kind = "finite"
    /\ \E i, j \in States : i # j /\ init_state[i] >= 1 /\ init_state[j] >= 1
    /\ \E n \in 1..Len(log_prob.terms) : log_prob.terms[n][2].n < Unit

\* C11: a trajectory produced by discrete_markov_simulation and scored by
\* discrete_markov_log_prob under the same hazard function, initial state
\* and time step has a finite log-density.
C11_RoundTripFinite ==
    Scored => log_prob.kind = "finite"

====
